---- MODULE Spec2Model ----
(***************************************************************************)
(* The inference proxy of src/tpu_proxy_clean.py as a state machine.       *)
(*                                                                         *)
(* The proxy is a single asyncio process: the code between two awaits runs *)
(* atomically, and a task can be overtaken by other tasks only while it is *)
(* suspended in an await (a backend call or a sleep).  Each action below   *)
(* is one such atomic segment of one task.                                 *)
(*                                                                         *)
(* Spec is the load-balancing proxy with its concurrency.  FrontSpec is    *)
(* the front door of the proxy variants taken one request at a time: the   *)
(* routes, the prompt formatters and the handlers of tpu_proxy_clean.py    *)
(* and fixed_tpu_proxy.py up to the response, and the health probes; the   *)
(* origin cursor is all that one request leaves to the next.  ProxySpec   *)
(* is the two together: a process seen through its concurrent handlers or  *)
(* through its front door.  BackSpec is the handlers of fixed_tpu_proxy.py *)
(* and universal_tpu_proxy.py with the backend's answers, up to the        *)
(* response.                                                               *)
(*                                                                         *)
(* A text the code works on character by character is the sequence of the  *)
(* code points of its characters.                                          *)
(***************************************************************************)
EXTENDS Integers, Sequences, FiniteSets, TLC

(***************************************************************************)
(* Bounds of the model.                                                    *)
(***************************************************************************)
\* Number of tasks (requests and send_to_tpu invocations) handled concurrently.
MaxTasks == 2

\* Longest message list of a request of FrontSpec.
MaxMessages == 2

\* The front door takes requests while the process has made fewer
\* get_next_origin calls than this.
MaxSelections == 2

(***************************************************************************)
(* Module-level state and configuration (lines 15-23).                     *)
(***************************************************************************)
LLM_ORIGINS == <<"http://127.0.0.1:8000", "http://127.0.0.1:8001">>

Origins == {LLM_ORIGINS[i] : i \in 1..Len(LLM_ORIGINS)}

\* Index (0-based, as in the code) of an origin in LLM_ORIGINS.
OriginIndex(o) == CHOOSE i \in 0..(Len(LLM_ORIGINS) - 1) : LLM_ORIGINS[i + 1] = o

\* str(e) of the NameError Python raises when the name LLM_ORIGIN is read.
NameError == "name 'LLM_ORIGIN' is not defined"

\* The module binds LLM_ORIGINS and current_origin_idx but never LLM_ORIGIN
\* (the only assignments of that name are in the other proxy variants), so
\* every f"{LLM_ORIGIN}..." of this module raises NameError when evaluated.
LLM_ORIGIN == NameError

\* Retry budget of the non-streaming loops (lines 155 and 352).
max_retries == 1

Tasks == 1..MaxTasks

(***************************************************************************)
(* Text.  A Python str the code works on character by character (message  *)
(* contents, prompts, chunks, generated texts) is the sequence of the code *)
(* points of its characters, ord(c), so that every character a client or a *)
(* backend can send has a value.  What the code only compares as a whole   *)
(* or passes on (roles, paths, status words, error messages) is a TLA+     *)
(* string.                                                                 *)
(***************************************************************************)
\* The printable ASCII characters in code order, U+0020 to U+005F and
\* U+0061 to U+007E.
AsciiLow == " !\"#$%&'()*+,-./0123456789:;<=>?@ABCDEFGHIJKLMNOPQRSTUVWXYZ[\\]^_"

AsciiHigh == "abcdefghijklmnopqrstuvwxyz{|}~"

\* ord(c) for the characters a TLA+ string literal can hold.
ord ==
    [c \in {"\t", "\n", "\f", "\r"} |->
        CASE c = "\t" -> 9 [] c = "\n" -> 10 [] c = "\f" -> 12 [] c = "\r" -> 13]
    @@ [c \in {SubSeq(AsciiLow, i, i) : i \in 1..Len(AsciiLow)} |->
           31 + CHOOSE i \in 1..Len(AsciiLow) : SubSeq(AsciiLow, i, i) = c]
    @@ [c \in {SubSeq(AsciiHigh, i, i) : i \in 1..Len(AsciiHigh)} |->
           96 + CHOOSE i \in 1..Len(AsciiHigh) : SubSeq(AsciiHigh, i, i) = c]

RECURSIVE Str(_)
\* The Python str with the characters of the literal s.
Str(s) == IF s = "" THEN <<>> ELSE <<ord[SubSeq(s, 1, 1)]>> \o Str(SubSeq(s, 2, Len(s)))

\* The literal the loops look for in a chunk (lines 166, 305, 362).
FaultSignature == Str("SetKVCache failed")

\* sub in s
Contains(s, sub) ==
    \E i \in 1..(Len(s) - Len(sub) + 1) : SubSeq(s, i, i + Len(sub) - 1) = sub

\* The characters str.strip() removes and str.split() separates at: the 29
\* code points c with chr(c).isspace().
Whitespace ==
    { 9, 10, 11, 12, 13, 28, 29, 30, 31, 32, 133, 160, 5760,
      8192, 8193, 8194, 8195, 8196, 8197, 8198, 8199, 8200, 8201, 8202,
      8232, 8233, 8239, 8287, 12288 }

\* Mutant: only the whitespace of ASCII is stripped.
IsBlankAscii(s) == \A i \in 1..Len(s) : s[i] \in {9, 10, 11, 12, 13, 32}

\* not s.strip()
IsBlank(s) == \A i \in 1..Len(s) : s[i] \in Whitespace

RECURSIVE Replace(_, _, _)
\* s.replace(old, new) for a non-empty old: the occurrences are replaced
\* from left to right, the search going on behind each replaced one.
Replace(s, old, new) ==
    IF Len(s) < Len(old) THEN s
    ELSE IF SubSeq(s, 1, Len(old)) = old
    THEN new \o Replace(SubSeq(s, Len(old) + 1, Len(s)), old, new)
    ELSE <<Head(s)>> \o Replace(Tail(s), old, new)

RECURSIVE CountWords(_, _)
\* The number of words that start in s; inword: the character before s
\* belongs to a word.
CountWords(s, inword) ==
    IF Len(s) = 0 THEN 0
    ELSE IF Head(s) \in Whitespace
    THEN CountWords(Tail(s), FALSE)
    ELSE (IF inword THEN 0 ELSE 1) + CountWords(Tail(s), TRUE)

\* Mutant: the text is split at the blanks of ASCII only.
WordCountAscii(s) ==
    Cardinality({i \in 1..Len(s) :
        /\ s[i] \notin {9, 10, 11, 12, 13, 32}
        /\ i > 1 => s[i - 1] \in {9, 10, 11, 12, 13, 32}})

\* len(s.split())
WordCount(s) == CountWords(s, FALSE)

\* The literals of the formatters (lines 67-70).
BlankLine == Str("\n\n")

AssistantMarker == Str("Assistant:")

(***************************************************************************)
(* Prompt formatting (lines 62-70, repeated at 266-274).                   *)
(***************************************************************************)
RECURSIVE FormatMessagesReversed(_)
\* Mutant: each message is put behind the messages that follow it.
FormatMessagesReversed(messages) ==
    IF messages = <<>> THEN <<>>
    ELSE LET msg == Head(messages)
             piece == IF IsBlank(msg.content) THEN <<>>
                      ELSE IF msg.role \in {"system", "user", "assistant"}
                           THEN msg.content \o BlankLine
                           ELSE <<>>
         IN  FormatMessagesReversed(Tail(messages)) \o piece

RECURSIVE FormatMessages(_)
FormatMessages(messages) ==
    IF messages = <<>> THEN <<>>
    ELSE LET msg == Head(messages)
             piece == IF IsBlank(msg.content) THEN <<>>
                      ELSE IF msg.role \in {"system", "user", "assistant"}
                           THEN msg.content \o BlankLine
                           ELSE <<>>
         IN  piece \o FormatMessages(Tail(messages))

FormatPrompt(messages) == FormatMessages(messages) \o AssistantMarker

(***************************************************************************)
(* Round-robin selection (lines 25-30).  The function has no await, so a   *)
(* call is one atomic step: it returns the origin at the cursor and the    *)
(* advanced cursor.                                                        *)
(***************************************************************************)
\* Mutants: the cursor is not stored back; the cursor is advanced without the modulo.
get_next_origin_stuck(idx) == [origin |-> LLM_ORIGINS[idx + 1], idx |-> idx]

get_next_origin_nowrap(idx) == [origin |-> LLM_ORIGINS[idx + 1], idx |-> idx + 1]

get_next_origin(idx) ==
    [origin |-> LLM_ORIGINS[idx + 1], idx |-> (idx + 1) % Len(LLM_ORIGINS)]

\* retries = len(LLM_ORIGINS) of send_to_tpu (line 36).
SendRetries == Len(LLM_ORIGINS)

(***************************************************************************)
(* Inputs.                                                                 *)
(***************************************************************************)
\* Message lists of the requests.
MessageLists ==
    { << [role |-> "user", content |-> Str("hello")] >>,
      << [role |-> "system", content |-> Str(" ")], [role |-> "user", content |-> Str("fix")],
         [role |-> "assistant", content |-> Str("it")] >> }

\* The body of a poll answer that is a JSON object with both fields.
Chunk(text, done) == [response |-> text, done |-> done]

\* Bodies of poll answers that are not what the loops expect: a JSON object
\* without the two fields, and a body that is not JSON.
Busy == [status |-> "busy"]
NotJson == [raw |-> "<html>502 Bad Gateway</html>"]

\* resp.json() returns for the body (it raises JSONDecodeError otherwise).
Parses(body) == "raw" \notin DOMAIN body

\* data.get(key, default) (lines 121-122, 161-162, 300-301, 358-359).
Get(data, key, default) == IF key \in DOMAIN data THEN data[key] ELSE default

\* What the backend delivers, poll by poll, for the successive generations a
\* request starts on it: the spec's end-to-end scenarios.
CleanScript == << << Chunk(Str("hi"), FALSE), Chunk(<<>>, TRUE) >> >>
OrderScript == << << Chunk(Str("a"), FALSE), Chunk(Str("b"), FALSE), Chunk(<<>>, TRUE) >> >>
GarbledScript == << << Busy, NotJson, Chunk(Str("hi"), FALSE), Chunk(<<>>, TRUE) >> >>
FaultScript == << << Chunk(Str("x"), FALSE), Chunk(FaultSignature, FALSE) >>,
                  << Chunk(Str("hi"), FALSE), Chunk(<<>>, TRUE) >> >>
FaultyScript == << << Chunk(FaultSignature, FALSE) >>,
                   << Chunk(Str("y"), FALSE), Chunk(FaultSignature, TRUE) >> >>
\* The backend delivers 'draft' and the fault, and from then on its reset
\* endpoint refuses the connection (see ResetFails).
CrashScript == << << Chunk(Str("draft"), FALSE), Chunk(FaultSignature, FALSE) >>,
                  << Chunk(Str("lost"), FALSE), Chunk(<<>>, TRUE) >> >>
\* The fault chunk comes with done = true.
FaultDoneScript == << << Chunk(FaultSignature, TRUE) >>,
                      << Chunk(Str("hi"), FALSE), Chunk(<<>>, TRUE) >> >>
\* The fault signature comes split over two chunks.
SplitScript == << << Chunk(Str("SetKVCache"), FALSE), Chunk(Str(" failed"), FALSE),
                     Chunk(<<>>, TRUE) >>,
                  << Chunk(Str("hi"), FALSE), Chunk(<<>>, TRUE) >> >>
Scripts ==
    { CleanScript, OrderScript, GarbledScript, FaultScript, FaultyScript,
      CrashScript, FaultDoneScript, SplitScript }

\* The generation the backend runs for the k-th accepted start of a script.
Generation(sc, k) == sc[IF k <= Len(sc) THEN k ELSE Len(sc)]

(***************************************************************************)
(* State.                                                                  *)
(***************************************************************************)
VARIABLES
    current_origin_idx, \* the shared rotation cursor (line 22)
    up,                 \* the origins that accept connections
    script,             \* what the backend generates for a request (see Scripts)
    backend,            \* per origin: the generation it runs and for which task
    task,               \* per task: the locals of its handler and its position
    selections,         \* history: every get_next_origin call, in order
    req                 \* FrontSpec: the request at the front door

vars == <<current_origin_idx, up, script, backend, task, selections, req>>

\* The variables of the load balancer and its tasks.
proxy_vars == <<current_origin_idx, up, script, backend, task, selections>>

IdleTask ==
    [kind |-> "idle", stream |-> FALSE, pc |-> "idle", method |-> "",
     origin |-> "", failed |-> <<>>, messages |-> <<>>, prompt |-> <<>>,
     started |-> 0, full_response |-> <<>>, retries |-> 0,
     status |-> 0, content |-> <<>>, error |-> "", events |-> <<>>,
     calls |-> <<>>, attempts |-> 0, is_done |-> FALSE]

Call(op, target, prompt) == [op |-> op, target |-> target, prompt |-> prompt]

\* No request is at the front door.
IdleRequest ==
    [pc |-> "idle", variant |-> "", method |-> "", path |-> "", body |-> <<>>,
     prompt |-> <<>>, outcome |-> <<>>, status |-> 0, reply |-> <<>>,
     polls |-> 0, poll |-> <<>>]

Init ==
    /\ current_origin_idx = 0
    /\ up \in SUBSET Origins
    /\ script \in Scripts
    /\ backend = [o \in Origins |-> [owner |-> 0, chunks |-> <<>>]]
    /\ task = [t \in Tasks |-> IdleTask]
    /\ selections = <<>>
    /\ req = IdleRequest

\* A request may take task slot t: the slot is free and so is no lower one
\* (the slots are interchangeable, requests fill them in order).
Free(t) == \A u \in Tasks : u >= t => task[u].pc = "idle"

\* The effect of one get_next_origin() call made by task t (t = 0: by the
\* request at the front door).
Select(t) ==
    /\ current_origin_idx' = get_next_origin(current_origin_idx).idx
    /\ selections' = Append(selections,
                            [task |-> t, origin |-> get_next_origin(current_origin_idx).origin])

\* The backend accepts a start call of task r at origin o.
Accept(b, o, t, r) ==
    [b EXCEPT ![o] = [owner |-> t, chunks |-> Generation(script, r.started + 1)]]

\* str(e) of the exception httpx raises when an origin refuses the connection.
ConnectError == "All connection attempts failed"

(***************************************************************************)
(* send_to_tpu (lines 32-50).                                              *)
(***************************************************************************)
\* Lines 34-43/45: the first iteration, up to the await of the backend call.
SendArrive(t) ==
    /\ Free(t)
    /\ \E method \in {"POST", "GET"} :
         LET sel == get_next_origin(current_origin_idx)
         IN  task' = [task EXCEPT ![t] =
                 [IdleTask EXCEPT !.kind = "send", !.pc = "send_wait",
                                  !.method = method, !.origin = sel.origin,
                                  !.attempts = 1,
                                  !.calls = <<Call(method, sel.origin, <<>>)>>]]
    /\ Select(t)
    /\ UNCHANGED <<up, script, backend, req>>

\* Lines 43/45: the backend call returns and its response is the result.
SendReturn(t) ==
    /\ task[t].pc = "send_wait"
    /\ task[t].origin \in up
    /\ task' = [task EXCEPT ![t].pc = "done", ![t].status = 200]
    /\ UNCHANGED <<current_origin_idx, up, script, backend, selections, req>>

\* Lines 46-48 and 38-43/45: the call raised, the loop goes on with the next
\* selected origin.
SendRetry(t) ==
    /\ task[t].pc = "send_wait"
    /\ task[t].origin \notin up
    /\ task[t].attempts < SendRetries
    /\ LET sel == get_next_origin(current_origin_idx)
       IN  task' = [task EXCEPT ![t].failed = Append(@, task[t].origin),
                                ![t].origin = sel.origin,
                                ![t].attempts = @ + 1,
                                ![t].calls = Append(@, Call(task[t].method, sel.origin, <<>>))]
    /\ Select(t)
    /\ UNCHANGED <<up, script, backend, req>>

\* Lines 46-50: the call of the last iteration raised.
SendRaise(t) ==
    /\ task[t].pc = "send_wait"
    /\ task[t].origin \notin up
    /\ task[t].attempts >= SendRetries
    /\ task' = [task EXCEPT ![t].failed = Append(@, task[t].origin),
                            ![t].pc = "done",
                            ![t].error = "All TPU backends are down!"]
    /\ UNCHANGED <<current_origin_idx, up, script, backend, selections, req>>

(***************************************************************************)
(* openai_chat_completions: the start of the generation (lines 53-108).    *)
(***************************************************************************)
\* Lines 55-94: the request is read, the prompt formatted, an origin selected
\* and the start call issued to it.
OpenaiArrive(t) ==
    /\ Free(t)
    /\ \E stream \in BOOLEAN, messages \in MessageLists :
         LET sel == get_next_origin(current_origin_idx)
             prompt == FormatPrompt(messages)
         IN  task' = [task EXCEPT ![t] =
                 [IdleTask EXCEPT !.kind = "openai", !.pc = "start",
                                  !.stream = stream, !.messages = messages,
                                  !.prompt = prompt,
                                  !.origin = sel.origin,
                                  !.calls = <<Call("generate", sel.origin, prompt)>>]]
    /\ Select(t)
    /\ UNCHANGED <<up, script, backend, req>>

\* What the task does after its loop has ended (break): the generator of a
\* streaming response returns; the non-streaming handlers return their
\* response object with the accumulated text (lines 211-234, 384-398).
Finish(r) ==
    IF r.stream THEN [r EXCEPT !.pc = "done"]
    ELSE [r EXCEPT !.pc = "done", !.status = 200, !.content = r.full_response]

\* Top of the loop (lines 119, 159, 298, 356): the poll URL is built from
\* LLM_ORIGIN.  Reading the unbound name raises, the loop's own
\* `except Exception` catches it and breaks (lines 143-145, 207-209, 341-343,
\* 381-382).
IssuePoll(r) ==
    IF LLM_ORIGIN = NameError THEN Finish(r)
    ELSE [r EXCEPT !.pc = "poll", !.calls = Append(@, Call("poll", LLM_ORIGIN, <<>>))]

\* The start call of request r was accepted (lines 90-104, 283-287).  The
\* streaming handlers return their StreamingResponse (status 200), whose
\* generator runs when it is pulled.  The non-streaming handlers run on,
\* without an await, into the first iteration of their loop (lines 149-159,
\* 347-356).
Started(r) ==
    IF r.stream THEN [r EXCEPT !.started = @ + 1, !.pc = "stream", !.status = 200]
    ELSE IssuePoll([r EXCEPT !.started = @ + 1])

\* Lines 90-94: the start call is accepted.
OpenaiStartAccepted(t) ==
    /\ task[t].pc = "start"
    /\ task[t].origin \in up
    /\ task' = [task EXCEPT ![t] = Started(task[t])]
    /\ backend' = Accept(backend, task[t].origin, t, task[t])
    /\ UNCHANGED <<current_origin_idx, up, script, selections, req>>

\* Lines 95-104: the start call raised; the next origin is selected and the
\* start call issued to it.
OpenaiFailover(t) ==
    /\ task[t].pc = "start"
    /\ task[t].origin \notin up
    /\ LET sel == get_next_origin(current_origin_idx)
       IN  task' = [task EXCEPT ![t].failed = Append(@, task[t].origin),
                                ![t].origin = sel.origin,
                                ![t].pc = "failover",
                                ![t].calls = Append(@, Call("generate", sel.origin, task[t].prompt))]
    /\ Select(t)
    /\ UNCHANGED <<up, script, backend, req>>

\* Lines 100-104: the second start call is accepted.
OpenaiFailoverAccepted(t) ==
    /\ task[t].pc = "failover"
    /\ task[t].origin \in up
    /\ task' = [task EXCEPT ![t] = Started(task[t])]
    /\ backend' = Accept(backend, task[t].origin, t, task[t])
    /\ UNCHANGED <<current_origin_idx, up, script, selections, req>>

\* Lines 100-108: the second start call raised too; the outer handler answers
\* 500 with the error.
OpenaiUnavailable(t) ==
    /\ task[t].pc = "failover"
    /\ task[t].origin \notin up
    /\ task' = [task EXCEPT ![t].failed = Append(@, task[t].origin),
                            ![t].pc = "done",
                            ![t].status = 500,
                            ![t].error = ConnectError]
    /\ UNCHANGED <<current_origin_idx, up, script, backend, selections, req>>

(***************************************************************************)
(* The poll/collect loops: stream_openai_results (lines 114-145), the      *)
(* non-streaming loop of openai_chat_completions (lines 151-234),          *)
(* stream_ollama_results (lines 295-343) and the non-streaming loop of     *)
(* ollama_chat (lines 349-398).  All four address the backend through the  *)
(* name LLM_ORIGIN.  Positions of a task in its loop:                      *)
(*   "stream"    the generator of a streaming response, not yet pulled     *)
(*   "poll"      awaiting the answer of GET /api/generate_provider         *)
(*   "reset"     awaiting the answer of POST /api/reset                    *)
(*   "cooldown"  in asyncio.sleep(2.0)                                     *)
(*   "restart"   awaiting the answer of the repeated POST /api/generate    *)
(*   "sleep"     in asyncio.sleep(0.04)                                    *)
(*   "yield"     a generator suspended at the yield of a chunk item        *)
(*   "yield_done"  a generator suspended at the yield of the terminal item *)
(***************************************************************************)
LoopPcs == {"stream", "poll", "reset", "cooldown", "restart", "sleep", "yield", "yield_done"}

\* The object a handler has returned for request r: the error body of lines
\* 108 and 290, the chat.completion object of lines 216-234 (the content of
\* its one choice and its usage), the Ollama object of lines 386-398 (its
\* message.content and done).
ResponseObject(r) ==
    IF r.status >= 500 THEN [error |-> r.error]
    ELSE IF r.kind = "openai"
    THEN [content |-> r.content,
          prompt_tokens |-> WordCount(r.prompt),
          completion_tokens |-> WordCount(r.content),
          total_tokens |-> WordCount(r.prompt) + WordCount(r.content)]
    ELSE [content |-> r.content, done |-> TRUE]

\* The terminal item a stream emits on done (lines 138-140, 323-338).
Terminal(r) ==
    IF r.kind = "openai"
    THEN [kind |-> "[DONE]", response |-> <<>>, content |-> <<>>, done |-> TRUE]
    ELSE [kind |-> "line", response |-> <<>>, content |-> <<>>, done |-> TRUE]

\* The item a stream emits for a chunk (lines 125-136, 314-321).
Event(r, chunk) ==
    IF r.kind = "openai"
    THEN [kind |-> "chat.completion.chunk", response |-> <<>>, content |-> chunk,
          done |-> FALSE]
    ELSE [kind |-> "line", response |-> chunk, content |-> chunk, done |-> FALSE]

\* The text appended when the retry budget is used up (lines 198, 373).
BudgetError(r, chunk) ==
    IF r.kind = "openai"
    THEN Str("\n[Error: TPU Memory Full - Max retries exceeded]\nOriginal error: ") \o chunk
    ELSE Str("\n[Error: TPU Memory Full]")

\* Lines 173, 307, 366: the reset call is issued (reached only after a poll
\* was answered, that is with LLM_ORIGIN bound).
IssueReset(r) ==
    [r EXCEPT !.pc = "reset", !.calls = Append(@, Call("reset", LLM_ORIGIN, <<>>))]

\* A generator yields the item of a chunk and is suspended at the yield
\* (lines 136, 321).
Yield(r, chunk) == [r EXCEPT !.events = Append(@, Event(r, chunk)), !.pc = "yield"]

\* The end of an iteration (lines 138-142, 203-206, 323-340, 378-380): on
\* done a generator yields the terminal item and is suspended at that yield,
\* a non-streaming loop breaks.
EndOfIteration(r, is_done) ==
    IF is_done
    THEN IF r.stream THEN [r EXCEPT !.events = Append(@, Terminal(r)), !.pc = "yield_done"]
         ELSE Finish(r)
    ELSE [r EXCEPT !.pc = "sleep"]

\* The body of an iteration for the polled body (lines 120-142, 160-206,
\* 299-340, 357-380).  A body resp.json() cannot parse raises inside the
\* try: the loop's `except Exception` ends the loop (lines 143-145, 207-209,
\* 341-343, 381-382).
OnPoll(r, data) ==
    LET chunk == Get(data, "response", <<>>)
        is_done == Get(data, "done", FALSE)
        polled == [r EXCEPT !.is_done = is_done]
    IN  IF ~Parses(data) THEN Finish(r)
        ELSE IF chunk = <<>> THEN EndOfIteration(polled, is_done)
        ELSE IF r.kind = "openai" /\ r.stream THEN Yield(polled, chunk)
        ELSE IF Contains(chunk, FaultSignature)
        THEN IF r.stream \/ r.retries < max_retries
             THEN IssueReset(polled)
             ELSE Finish([polled EXCEPT !.full_response = @ \o BudgetError(r, chunk)])
        ELSE IF r.stream THEN Yield(polled, chunk)
        ELSE EndOfIteration([polled EXCEPT !.full_response = @ \o chunk], is_done)

\* A reset or restart call raised (lines 192-195; 341-343; 381-382).
RecoveryFailed(r) ==
    IF r.kind = "openai" /\ ~r.stream
    THEN Finish([r EXCEPT !.full_response =
                    Str("Error: TPU memory full. Auto-reset failed: ") \o Str(ConnectError)])
    ELSE Finish(r)

\* After the restart was accepted (lines 186-190, 310, 369-371): a fresh
\* accumulator, one retry counted (non-streaming only), and the next poll.
Restarted(r) ==
    IF r.stream THEN IssuePoll([r EXCEPT !.started = @ + 1])
    ELSE IssuePoll([r EXCEPT !.started = @ + 1, !.full_response = <<>>, !.retries = @ + 1])

\* The reset call of a recovery raises: the backend of the scenario refuses
\* it (lines 173, 307, 366 raise out of client.post).
ResetFails == script = CrashScript

\* What a poll of origin o answers, and the backend after it.
PollData(b, o) == IF b[o].chunks = <<>> THEN Chunk(<<>>, TRUE) ELSE Head(b[o].chunks)

Polled(b, o) == IF b[o].chunks = <<>> THEN b ELSE [b EXCEPT ![o].chunks = Tail(@)]

\* One atomic segment of a loop of task t, from its position to its next
\* await: the task and the backend after it.
LoopStep(t) ==
    LET r == task[t]
    IN  CASE r.pc \in {"stream", "sleep"} ->
               [task |-> IssuePoll(r), backend |-> backend]
          [] r.pc = "yield" ->
               [task |-> EndOfIteration(r, r.is_done), backend |-> backend]
          [] r.pc = "yield_done" ->
               [task |-> Finish(r), backend |-> backend]
          [] r.pc = "poll" ->
               IF LLM_ORIGIN \in up
               THEN [task |-> OnPoll(r, PollData(backend, LLM_ORIGIN)),
                     backend |-> Polled(backend, LLM_ORIGIN)]
               ELSE [task |-> Finish(r), backend |-> backend]
          [] r.pc = "reset" ->
               IF LLM_ORIGIN \in up /\ ~ResetFails
               THEN [task |-> [r EXCEPT !.pc = "cooldown"],
                     backend |-> [backend EXCEPT ![LLM_ORIGIN] = [owner |-> 0, chunks |-> <<>>]]]
               ELSE [task |-> RecoveryFailed(r), backend |-> backend]
          [] r.pc = "cooldown" ->
               [task |-> [r EXCEPT !.pc = "restart",
                                   !.calls = Append(@, Call("generate", LLM_ORIGIN, r.prompt))],
                backend |-> backend]
          [] r.pc = "restart" ->
               IF LLM_ORIGIN \in up
               THEN [task |-> Restarted(r), backend |-> Accept(backend, LLM_ORIGIN, t, r)]
               ELSE [task |-> RecoveryFailed(r), backend |-> backend]

\* The rotation cursor after a loop segment of task t: the loops address
\* every poll, reset and restart call through LLM_ORIGIN and never call
\* get_next_origin (lines 114-145, 151-209, 295-343, 349-382).
LoopCursor(t) == current_origin_idx

\* A task of openai_chat_completions goes on in its loop: the generator
\* stream_openai_results (lines 114-145) is pulled by the StreamingResponse,
\* the non-streaming loop (lines 157-209) is resumed after an await.
OpenaiLoop(t) ==
    /\ task[t].kind = "openai"
    /\ task[t].pc \in LoopPcs
    /\ task' = [task EXCEPT ![t] = LoopStep(t).task]
    /\ backend' = LoopStep(t).backend
    /\ current_origin_idx' = LoopCursor(t)
    /\ UNCHANGED <<up, script, selections, req>>

(***************************************************************************)
(* ollama_chat (lines 258-398).                                            *)
(***************************************************************************)
\* Lines 261-290: the request is read, the prompt formatted and the start
\* call addressed to LLM_ORIGIN: the NameError is caught at line 288 and the
\* handler answers 500 with it, having made no backend call.
OllamaStart(r) ==
    IF LLM_ORIGIN = NameError
    THEN [r EXCEPT !.pc = "done", !.status = 500, !.error = NameError]
    ELSE [r EXCEPT !.pc = "start", !.origin = LLM_ORIGIN,
                   !.calls = <<Call("generate", LLM_ORIGIN, r.prompt)>>]

OllamaChat(t) ==
    /\ task[t].kind \in {"idle", "ollama"}
    /\ task[t].pc \in {"idle", "start"} \cup LoopPcs
    /\ task[t].pc = "idle" => Free(t)
    /\ IF task[t].pc = "idle"
       THEN /\ \E stream \in BOOLEAN, messages \in MessageLists :
                 task' = [task EXCEPT ![t] =
                     OllamaStart([IdleTask EXCEPT !.kind = "ollama", !.stream = stream,
                                                  !.messages = messages,
                                                  !.prompt = FormatPrompt(messages)])]
            /\ backend' = backend
       ELSE IF task[t].pc = "start"
       THEN IF LLM_ORIGIN \in up
            THEN /\ task' = [task EXCEPT ![t] = Started(task[t])]
                 /\ backend' = Accept(backend, LLM_ORIGIN, t, task[t])
            ELSE /\ task' = [task EXCEPT ![t].pc = "done", ![t].status = 500,
                                         ![t].error = ConnectError]
                 /\ backend' = backend
       ELSE /\ task' = [task EXCEPT ![t] = LoopStep(t).task]
            /\ backend' = LoopStep(t).backend
    /\ current_origin_idx' =
           IF task[t].pc \in LoopPcs THEN LoopCursor(t) ELSE current_origin_idx
    /\ UNCHANGED <<up, script, selections, req>>

(***************************************************************************)
(* The proxy.                                                              *)
(***************************************************************************)
Next ==
    \E t \in Tasks :
        \/ SendArrive(t)
        \/ SendReturn(t)
        \/ SendRetry(t)
        \/ SendRaise(t)
        \/ OpenaiArrive(t)
        \/ OpenaiStartAccepted(t)
        \/ OpenaiFailover(t)
        \/ OpenaiFailoverAccepted(t)
        \/ OpenaiUnavailable(t)
        \/ OpenaiLoop(t)
        \/ OllamaChat(t)

Spec == Init /\ [][Next]_vars

\* The event loop runs every task that is ready: a handler that can take its
\* next step takes it.  (Arrivals of requests are not owed.)
Progress(t) ==
    \/ SendReturn(t) \/ SendRetry(t) \/ SendRaise(t)
    \/ OpenaiStartAccepted(t) \/ OpenaiFailover(t) \/ OpenaiFailoverAccepted(t)
    \/ OpenaiUnavailable(t) \/ OpenaiLoop(t)
    \/ (task[t].pc # "idle" /\ OllamaChat(t))

FairSpec == Spec /\ \A t \in Tasks : WF_vars(Progress(t))

(***************************************************************************)
(* The front door of the proxy variants, one request at a time.            *)
(***************************************************************************)
Variants == {"tpu_proxy_clean", "fixed_tpu_proxy"}

\* The routes the variants declare (@app.post / @app.get).
CleanRoutes ==
    { <<"POST", "/v1/chat/completions">>, <<"GET", "/v1/models">>, <<"GET", "/health">>,
      <<"POST", "/api/chat">>, <<"GET", "/api/tags">> }

FixedRoutes ==
    { <<"POST", "/v1/chat/completions">>, <<"GET", "/v1/models">>, <<"GET", "/health">> }

Routes(variant) == IF variant = "tpu_proxy_clean" THEN CleanRoutes ELSE FixedRoutes

\* The handlers that format a prompt from the messages of the request.
ChatRoutes == { <<"POST", "/v1/chat/completions">>, <<"POST", "/api/chat">> }

\* fixed_tpu_proxy.py, lines 17-22.
THINK_START == Str("<think>")

THINK_END == Str("</think>")

clean_response(text) == Replace(Replace(text, THINK_START, <<>>), THINK_END, <<>>)

\* The literals of the formatter (lines 39-47).
InstructionsLabel == Str("Instructions: ")

UserLabel == Str("User: ")

AssistantLabel == Str("Assistant: ")

LineBreak == Str("\n")

RECURSIVE FixedFormatMessages(_)
\* fixed_tpu_proxy.py, lines 32-45: the loop over the messages.
FixedFormatMessages(messages) ==
    IF messages = <<>> THEN <<>>
    ELSE LET msg == Head(messages)
             piece == IF Contains(msg.content, FaultSignature) \/ IsBlank(msg.content) THEN <<>>
                      ELSE IF msg.role = "system"
                           THEN InstructionsLabel \o msg.content \o LineBreak
                      ELSE IF msg.role = "user" THEN UserLabel \o msg.content \o LineBreak
                      ELSE IF msg.role = "assistant"
                           THEN AssistantLabel \o msg.content \o LineBreak
                      ELSE <<>>
         IN  piece \o FixedFormatMessages(Tail(messages))

\* fixed_tpu_proxy.py, lines 32-47.
FixedFormatPrompt(messages) == FixedFormatMessages(messages) \o AssistantMarker

\* The prompt a chat handler of the variant formats.
FormattedPrompt(variant, messages) ==
    IF variant = "tpu_proxy_clean" THEN FormatPrompt(messages) ELSE FixedFormatPrompt(messages)

\* Inputs: the messages of a request.  The roles of a ChatMessage are
\* system, user and assistant; "tool" stands for any other role a client
\* may send.
Roles == {"system", "user", "assistant", "tool"}

\* A content of every character str.strip() removes, and one whose words
\* are separated by U+3000 (a space) and joined by U+200B (no space).
BlankContent ==
    << 32, 9, 10, 11, 12, 13, 28, 29, 30, 31, 133, 160, 5760,
       8192, 8193, 8194, 8195, 8196, 8197, 8198, 8199, 8200, 8201, 8202,
       8232, 8233, 8239, 8287, 12288 >>

WideContent == Str("fix") \o <<12288>> \o Str("i") \o <<8203>> \o Str("t")

Contents ==
    { <<>>, BlankContent, Str("hello"), WideContent, Str("hello\n\nhello"),
      Str("SetKVCache failed again") }

Messages == [role : Roles, content : Contents]

MessageSeqs == UNION {[1..n -> Messages] : n \in 0..MaxMessages}

\* Inputs: the JSON body of a request, with messages or with a raw prompt.
RawPrompt == Str("write code")

Bodies == {[messages |-> m] : m \in MessageSeqs} \cup {[prompt |-> RawPrompt, stream |-> FALSE]}

\* Inputs: what the backend does with a call of fixed_tpu_proxy: the call
\* times out, the connection is refused, or it is answered with a status
\* code and a body.
\* A generated text with the markers of a reasoning block, and with U+00A0
\* and U+2028 between two of its words.
ThinkingText == Str("<think>plan it</think>hi") \o <<160, 8232>> \o Str("there")

BackendData ==
    { [response |-> Str("hi")], [response |-> ThinkingText],
      [response |-> Str("<th<think>ink>nested")],
      [text |-> Str("from text")], [response |-> <<>>, content |-> Str("from content")],
      [status |-> "ok"], NotJson }

BackendOutcomes ==
    { [kind |-> "timeout", code |-> 0, data |-> <<>>],
      [kind |-> "refused", code |-> 0, data |-> <<>>],
      [kind |-> "answered", code |-> 503, data |-> <<>>] }
    \cup {[kind |-> "answered", code |-> 200, data |-> d] : d \in BackendData}

\* Inputs: the outcomes the requests of FrontSpec, with all their bodies,
\* are answered with: one of each kind.
FrontOutcomes ==
    {o \in BackendOutcomes :
        o.data \in {<<>>, [response |-> ThinkingText]}}

\* str(e) of the JSONDecodeError of a body that does not start a JSON value.
JSONDecodeError == "Expecting value: line 1 column 1 (char 0)"

\* fixed_tpu_proxy.py, lines 55-129: what the handler answers for the
\* outcome of its backend call.
FixedAnswer(prompt, o) ==
    IF o.kind = "timeout"
    THEN [status |-> 504, reply |-> [error |-> "TPU processing timeout (5 minutes)"]]
    ELSE IF o.kind = "refused"
    THEN [status |-> 500, reply |-> [error |-> ConnectError]]
    ELSE IF o.code # 200
    THEN [status |-> 500, reply |-> [error |-> "LLM server error: " \o ToString(o.code)]]
    ELSE IF ~Parses(o.data)
    THEN [status |-> 500, reply |-> [error |-> JSONDecodeError]]
    ELSE LET response == Get(o.data, "response", <<>>)
             generated_text == IF response = <<>>
                               THEN Get(o.data, "text", Get(o.data, "content", <<>>))
                               ELSE response
             cleaned_text == clean_response(generated_text)
         IN  [status |-> 200,
              reply |-> [content |-> cleaned_text,
                         prompt_tokens |-> WordCount(prompt),
                         completion_tokens |-> WordCount(cleaned_text),
                         total_tokens |-> WordCount(prompt) + WordCount(cleaned_text)]]

\* health_check: tpu_proxy_clean.py lines 249-256 (the probe URL is built
\* from LLM_ORIGIN inside the try, the bare except answers for the
\* NameError), fixed_tpu_proxy.py lines 144-152.
HealthAnswer(variant, probe) ==
    IF variant = "tpu_proxy_clean"
    THEN IF LLM_ORIGIN = NameError \/ probe # "answered"
         THEN [status |-> "degraded", tpu_server |-> "disconnected"]
         ELSE [status |-> "healthy", tpu_server |-> "connected"]
    ELSE IF probe = "answered"
         THEN [status |-> "healthy", flask_server |-> "connected"]
         ELSE [status |-> "degraded", flask_server |-> "disconnected"]

\* The app of the program `variant` is served and no request is at its
\* door: by uvicorn.run of its __main__ block, or by an ASGI server that
\* imports the module, which does not run the block.
Deployed(variant) == [IdleRequest EXCEPT !.variant = variant]

\* The program `variant` was started as a script and is about to run its
\* __main__ block.
Launched(variant) == [IdleRequest EXCEPT !.variant = variant, !.pc = "main"]

\* A process of one of the programs `variants` has started, as a script or
\* with its app served.
Deployment(variants) ==
    /\ current_origin_idx = 0
    /\ up = {}
    /\ script = CleanScript
    /\ backend = [o \in Origins |-> [owner |-> 0, chunks |-> <<>>]]
    /\ task = [t \in Tasks |-> IdleTask]
    /\ selections = <<>>
    /\ req \in {Deployed(variant) : variant \in variants}
                 \cup {Launched(variant) : variant \in variants}

FrontInit == Deployment(Variants)

\* The __main__ block of the variant.  tpu_proxy_clean.py (lines 421-427)
\* prints LLM_ORIGIN before it calls uvicorn.run: the NameError ends the
\* process with exit code 1 and it never serves.  The other variants
\* (fixed_tpu_proxy.py lines 154-159, universal_tpu_proxy.py lines 198-203)
\* reach uvicorn.run.
Main ==
    /\ req.pc = "main"
    /\ req' = IF req.variant = "tpu_proxy_clean" /\ LLM_ORIGIN = NameError
              THEN [req EXCEPT !.pc = "exited", !.status = 1,
                               !.reply = [error |-> NameError]]
              ELSE Deployed(req.variant)
    /\ UNCHANGED proxy_vars

\* Inputs: the body a request to `route` carries.  A route the program does
\* not declare is answered by the framework, which does not read the body.
BodiesOf(variant, route) ==
    IF route \in Routes(variant) THEN Bodies ELSE {[prompt |-> RawPrompt, stream |-> FALSE]}

\* A client sends a request to the process.
Receive ==
    /\ req.pc = "idle"
    /\ Len(selections) < MaxSelections
    /\ \E route \in ChatRoutes \cup {<<"POST", "/api/generate">>} :
         \E body \in BodiesOf(req.variant, route) :
           req' = [req EXCEPT !.pc = "received", !.method = route[1],
                              !.path = route[2], !.body = body]
    /\ UNCHANGED proxy_vars

\* A client asks for the health of the process; the backend answers the
\* probe or not.
ReceiveHealth ==
    /\ req.pc = "idle"
    /\ \E probe \in {"answered", "failed"} :
         req' = [req EXCEPT !.pc = "received", !.method = "GET", !.path = "/health",
                            !.outcome = [kind |-> probe, code |-> 0, data |-> <<>>]]
    /\ UNCHANGED proxy_vars

\* The variant declares no such route: the framework answers 404.
NotFound ==
    /\ req.pc = "received"
    /\ <<req.method, req.path>> \notin Routes(req.variant)
    /\ req' = [req EXCEPT !.pc = "answered", !.status = 404,
                          !.reply = [detail |-> "Not Found"]]
    /\ UNCHANGED proxy_vars

\* str(e) of the exception httpx raises when a call times out.
ReadTimeout == ""

\* str(e) of the exception a backend call raised.
ErrorText(o) == IF o.kind = "timeout" THEN ReadTimeout ELSE ConnectError

\* tpu_proxy_clean.py, lines 276-290: ollama_chat addresses its start call
\* to LLM_ORIGIN inside the try; the NameError is answered 500.
FrontOllamaStart(q) ==
    IF LLM_ORIGIN = NameError
    THEN [q EXCEPT !.pc = "answered", !.status = 500, !.reply = [error |-> NameError]]
    ELSE [q EXCEPT !.pc = "formatted"]

\* tpu_proxy_clean.py, lines 149-234 and 347-398: a non-streaming handler
\* whose start call was answered enters its loop; the NameError of the first
\* poll URL ends the loop and the handler returns its response object with
\* the empty accumulator.  (With LLM_ORIGIN bound it polls as in Spec.)
FrontReturn(q) ==
    IF LLM_ORIGIN = NameError
    THEN [q EXCEPT !.pc = "answered", !.status = 200,
                   !.reply = ResponseObject(
                       [IdleTask EXCEPT !.kind = IF q.path = "/api/chat" THEN "ollama"
                                                 ELSE "openai",
                                        !.status = 200, !.prompt = q.prompt])]
    ELSE [q EXCEPT !.pc = "collecting"]

\* A chat handler is resumed with the body of the request and runs to its
\* next await or return.  It reads the messages and formats the prompt
\* (tpu_proxy_clean.py lines 55-70 and 261-274, fixed_tpu_proxy.py lines
\* 27-47, universal_tpu_proxy.py lines 28-48).  openai_chat_completions of
\* tpu_proxy_clean then selects an origin and issues the start call to it
\* (lines 86-90); ollama_chat of tpu_proxy_clean runs into the NameError
\* (lines 283-290); the handlers of the other variants issue their start
\* call.
FormatRequest ==
    /\ req.pc = "received"
    /\ <<req.method, req.path>> \in Routes(req.variant) \cap ChatRoutes
    /\ LET prompt == FormattedPrompt(req.variant, Get(req.body, "messages", <<>>))
       IN  IF req.variant # "tpu_proxy_clean"
           THEN /\ req' = [req EXCEPT !.pc = "formatted", !.prompt = prompt]
                /\ UNCHANGED <<current_origin_idx, selections>>
           ELSE IF req.path = "/api/chat"
           THEN /\ req' = FrontOllamaStart([req EXCEPT !.prompt = prompt])
                /\ UNCHANGED <<current_origin_idx, selections>>
           ELSE /\ req' = [req EXCEPT !.pc = "formatted", !.prompt = prompt]
                /\ Select(0)
    /\ UNCHANGED <<up, script, backend, task>>

\* tpu_proxy_clean.py, lines 90-108 and 283-290: the pending start call of a
\* chat handler of tpu_proxy_clean is over.  The handlers do not read the
\* response: answered with whatever status, the call returns.  When the
\* first call of openai_chat_completions raises, the next origin is selected
\* and the call repeated (pc "failover"); when that raises too, or the call
\* of ollama_chat, the handler answers 500.
CleanGenerate ==
    /\ req.variant = "tpu_proxy_clean"
    /\ req.pc \in {"formatted", "failover"}
    /\ \E o \in FrontOutcomes :
         IF o.kind = "answered"
         THEN /\ req' = FrontReturn(req)
              /\ UNCHANGED <<current_origin_idx, selections>>
         ELSE IF req.pc = "formatted" /\ req.path = "/v1/chat/completions"
         THEN /\ req' = [req EXCEPT !.pc = "failover"]
              /\ Select(0)
         ELSE /\ req' = [req EXCEPT !.pc = "answered", !.status = 500,
                                    !.reply = [error |-> ErrorText(o)]]
              /\ UNCHANGED <<current_origin_idx, selections>>
    /\ UNCHANGED <<up, script, backend, task>>

\* fixed_tpu_proxy.py, lines 55-129: the backend call, with one of
\* `outcomes`, and the answer.
FixedGenerate(outcomes) ==
    /\ req.pc = "formatted"
    /\ req.variant = "fixed_tpu_proxy"
    /\ \E o \in outcomes :
         req' = [req EXCEPT !.pc = "answered", !.outcome = o,
                            !.status = FixedAnswer(req.prompt, o).status,
                            !.reply = FixedAnswer(req.prompt, o).reply]
    /\ UNCHANGED proxy_vars

\* health_check of the variant.
HealthCheck ==
    /\ req.pc = "received"
    /\ <<req.method, req.path>> = <<"GET", "/health">>
    /\ req' = [req EXCEPT !.pc = "answered", !.status = 200,
                          !.reply = HealthAnswer(req.variant, req.outcome.kind)]
    /\ UNCHANGED proxy_vars

\* The answer is sent and the request is over; nothing of it is kept.
Close ==
    /\ req.pc = "answered"
    /\ req' = Deployed(req.variant)
    /\ UNCHANGED proxy_vars

FrontNext ==
    \/ Main
    \/ Receive
    \/ ReceiveHealth
    \/ NotFound
    \/ FormatRequest
    \/ CleanGenerate
    \/ FixedGenerate(FrontOutcomes)
    \/ HealthCheck
    \/ Close

FrontSpec == FrontInit /\ [][FrontNext]_vars

(***************************************************************************)
(* The two views of a proxy process together: tpu_proxy_clean.py through   *)
(* its concurrent handlers, or a variant through its front door, the       *)
(* backend answering as in CleanScript in both.                            *)
(***************************************************************************)
ProxyInit == (Init /\ script = CleanScript) \/ FrontInit

ProxyNext ==
    \/ req.variant = "" /\ Next
    \/ req.variant # "" /\ FrontNext

ProxySpec == ProxyInit /\ [][ProxyNext]_vars

(***************************************************************************)
(* The chat-completions handlers that wait for the backend's answer:       *)
(* fixed_tpu_proxy.py (one call) and universal_tpu_proxy.py (one call,     *)
(* then polling when the backend only acknowledged), one request at a      *)
(* time.  The formatter of universal_tpu_proxy.py (lines 33-48) and its    *)
(* clean_response (lines 21-23) are those of fixed_tpu_proxy.py.           *)
(***************************************************************************)
BackVariants == {"fixed_tpu_proxy", "universal_tpu_proxy"}

\* universal_tpu_proxy.py, line 84.
max_polls == 60

\* Inputs: the bodies of the requests.
BackBodies ==
    { [messages |-> <<>>],
      [messages |-> << [role |-> "user", content |-> Str("hello")] >>],
      [messages |-> << [role |-> "system", content |-> Str("fix it")],
                       [role |-> "user", content |-> Str("hello")] >>] }

\* No call was made.
NoCall == [kind |-> "none", code |-> 0, data |-> <<>>]

\* The call raises: httpx raises, or response.json() does.
Raises(o) ==
    \/ o.kind \in {"timeout", "refused"}
    \/ o.kind = "answered" /\ o.code = 200 /\ ~Parses(o.data)

\* Inputs: what the backend does with GET /api/result in a poll round, and
\* with GET /api/generate_provider, which the round tries when the first
\* call raised.
ResultAnswers ==
    { [kind |-> "timeout", code |-> 0, data |-> <<>>],
      [kind |-> "answered", code |-> 503, data |-> <<>>] }
    \cup {[kind |-> "answered", code |-> 200, data |-> d] :
             d \in { [response |-> Str("late")], [text |-> Str("late text")],
                     [done |-> TRUE], [done |-> FALSE], NotJson }}

ProviderAnswers ==
    { [kind |-> "refused", code |-> 0, data |-> <<>>],
      [kind |-> "answered", code |-> 200, data |-> Busy],
      [kind |-> "answered", code |-> 200, data |-> [response |-> Str("from provider")]] }

\* Line 81: the backend acknowledged the request without a text.
NeedsPolling(data) == Get(data, "response", <<>>) = <<>> /\ Get(data, "status", "") = "ok"

\* A poll round that never has a result.
UniversalRoundPatient(poll) == [text |-> <<>>, stop |-> FALSE]

\* One round of the poll loop (lines 88-125): the text it leaves in
\* generated_text and whether it breaks the loop.
UniversalRound(poll) ==
    IF Raises(poll.main)
    THEN IF poll.alt.kind = "answered" /\ poll.alt.code = 200 /\ Parses(poll.alt.data)
         THEN [text |-> Get(poll.alt.data, "response", <<>>),
               stop |-> Get(poll.alt.data, "response", <<>>) # <<>>]
         ELSE [text |-> <<>>, stop |-> FALSE]
    ELSE IF poll.main.code # 200 THEN [text |-> <<>>, stop |-> FALSE]
    ELSE LET generated_text ==
                 Get(poll.main.data, "response", Get(poll.main.data, "text", <<>>))
         IN  [text |-> generated_text,
              stop |-> generated_text # <<>> \/ Get(poll.main.data, "done", FALSE)]

\* Lines 127-159: the fallback fields of the start response, the cleaning
\* and the chat.completion object.
UniversalFinish(prompt, data, text) ==
    LET generated_text ==
            IF text = <<>>
            THEN Get(data, "text", Get(data, "content", Get(data, "output", <<>>)))
            ELSE text
        cleaned_text == clean_response(generated_text)
    IN  [pc |-> "answered", status |-> 200,
         reply |-> [content |-> cleaned_text,
                    prompt_tokens |-> WordCount(prompt),
                    completion_tokens |-> WordCount(cleaned_text),
                    total_tokens |-> WordCount(prompt) + WordCount(cleaned_text)]]

\* A handler that answers every outcome of the start call with an empty
\* chat.completion.
UniversalStartBlind(prompt, o) ==
    [pc |-> "answered", status |-> 200,
     reply |-> [content |-> <<>>, prompt_tokens |-> 0, completion_tokens |-> 0,
                total_tokens |-> 0]]

\* Lines 56-81 and 161-174: what the handler does for the outcome of its
\* start call: it answers, or it goes polling.
UniversalStart(prompt, o) ==
    IF o.kind = "timeout"
    THEN [pc |-> "answered", status |-> 504,
          reply |-> [error |-> "TPU processing timeout (5 minutes)"]]
    ELSE IF o.kind = "refused"
    THEN [pc |-> "answered", status |-> 500, reply |-> [error |-> ConnectError]]
    ELSE IF o.code # 200
    THEN [pc |-> "answered", status |-> 500,
          reply |-> [error |-> "LLM server error: " \o ToString(o.code)]]
    ELSE IF ~Parses(o.data)
    THEN [pc |-> "answered", status |-> 500, reply |-> [error |-> JSONDecodeError]]
    ELSE IF NeedsPolling(o.data)
    THEN [pc |-> "polling", status |-> 0, reply |-> <<>>]
    ELSE UniversalFinish(prompt, o.data, Get(o.data, "response", <<>>))

BackInit == Deployment(BackVariants)

\* A client sends a chat-completions request to the process.
BackReceive ==
    /\ req.pc = "idle"
    /\ \E body \in BackBodies :
         req' = [req EXCEPT !.pc = "received", !.method = "POST",
                            !.path = "/v1/chat/completions", !.body = body]
    /\ UNCHANGED proxy_vars

\* universal_tpu_proxy.py, lines 56-81: the start call and what follows it.
UniversalGenerate ==
    /\ req.pc = "formatted"
    /\ req.variant = "universal_tpu_proxy"
    /\ \E o \in BackendOutcomes :
         req' = [req EXCEPT !.pc = UniversalStart(req.prompt, o).pc, !.outcome = o,
                            !.status = UniversalStart(req.prompt, o).status,
                            !.reply = UniversalStart(req.prompt, o).reply]
    /\ UNCHANGED proxy_vars

\* The end of a poll round with the answers `poll` (lines 103-109, 122-159):
\* the handler answers when the round breaks the loop or was the last one,
\* else it sleeps before the next round.
EndRound(q, poll) ==
    LET round == UniversalRound(poll)
        end == UniversalFinish(q.prompt, q.outcome.data, round.text)
    IN  IF round.stop \/ q.polls + 1 = max_polls
        THEN [q EXCEPT !.pc = end.pc, !.status = end.status, !.reply = end.reply,
                       !.polls = @ + 1, !.poll = poll]
        ELSE [q EXCEPT !.pc = "polling", !.polls = @ + 1, !.poll = poll]

\* universal_tpu_proxy.py, lines 88-95: the sleep of a round is over and the
\* handler issues GET /api/result.
UniversalPoll ==
    /\ req.pc = "polling"
    /\ req.polls < max_polls
    /\ req' = [req EXCEPT !.pc = "result"]
    /\ UNCHANGED proxy_vars

\* universal_tpu_proxy.py, lines 92-118: GET /api/result is over.  When it
\* raised (or its body is not JSON) the handler issues GET
\* /api/generate_provider; else the round ends.
UniversalResult ==
    /\ req.pc = "result"
    /\ \E m \in ResultAnswers :
         IF Raises(m)
         THEN req' = [req EXCEPT !.pc = "provider", !.poll = [main |-> m, alt |-> NoCall]]
         ELSE req' = EndRound(req, [main |-> m, alt |-> NoCall])
    /\ UNCHANGED proxy_vars

\* universal_tpu_proxy.py, lines 115-125: GET /api/generate_provider is
\* over; the round ends.
UniversalProvider ==
    /\ req.pc = "provider"
    /\ \E a \in ProviderAnswers :
         req' = EndRound(req, [main |-> req.poll.main, alt |-> a])
    /\ UNCHANGED proxy_vars

BackNext ==
    \/ Main
    \/ BackReceive
    \/ FormatRequest
    \/ FixedGenerate(BackendOutcomes)
    \/ UniversalGenerate
    \/ UniversalPoll
    \/ UniversalResult
    \/ UniversalProvider
    \/ Close

BackSpec == BackInit /\ [][BackNext]_vars

(***************************************************************************)
(* Notions the properties are stated in.                                   *)
(***************************************************************************)
NumOrigins == Len(LLM_ORIGINS)

\* The origins in rotation order, starting at origin o.
RotationFrom(o) ==
    [k \in 1..NumOrigins |-> LLM_ORIGINS[((OriginIndex(o) + k - 1) % NumOrigins) + 1]]

\* The origins task t addressed, call by call.
Targets(t) == [i \in 1..Len(task[t].calls) |-> task[t].calls[i].target]

\* Another task selected an origin between two selections of task t.
Interfered(t) ==
    \E i, j, k \in 1..Len(selections) :
        /\ i < j /\ j < k
        /\ selections[i].task = t /\ selections[k].task = t
        /\ selections[j].task # t

\* A request whose start call was accepted and whose handler has returned
\* (non-streaming) or whose stream has ended (streaming).
Served(t) == task[t].pc = "done" /\ task[t].started > 0

RECURSIVE Text(_)
\* The text of a generation: its chunks concatenated in order.
Text(gen) == IF gen = <<>> THEN <<>> ELSE Get(Head(gen), "response", <<>>) \o Text(Tail(gen))

\* The marker both non-streaming loops put into the content when the retry
\* budget is used up (lines 198 and 373).
ErrorMarker == Str("[Error: TPU Memory Full")

\* The chunk of a generation carries the fault signature.
IsFault(chunk) == Contains(Get(chunk, "response", <<>>), FaultSignature)

HasFault(gen) == \E i \in 1..Len(gen) : IsFault(gen[i])

\* The generation spells the fault signature, but in no single chunk.
Straddles(gen) == Contains(Text(gen), FaultSignature) /\ ~HasFault(gen)

\* The position of the first fault chunk of a generation.
FirstFault(gen) == CHOOSE i \in 1..Len(gen) : IsFault(gen[i]) /\ \A j \in 1..(i - 1) : ~IsFault(gen[j])

\* The position of the accepted start call in the call log of an
\* OpenAI-style request: after the start calls that raised.
AcceptedStart(t) == Len(task[t].failed) + 1

\* The number of calls of kind op in the log of task t from position `from`.
CountCalls(t, op, from) ==
    Cardinality({i \in from..Len(task[t].calls) : task[t].calls[i].op = op})

\* The poll answer is not what the loops expect: not JSON, or a JSON object
\* without one of the two fields.
Malformed(data) ==
    ~Parses(data) \/ "response" \notin DOMAIN data \/ "done" \notin DOMAIN data

\* Every poll answer of the generation is a JSON object with both fields.
WellFormed(gen) == \A i \in 1..Len(gen) : ~Malformed(gen[i])

RECURSIVE UpToDone(_)
\* The poll answers of a generation up to and including the first one with
\* done = true.
UpToDone(gen) ==
    IF gen = <<>> THEN <<>>
    ELSE IF Get(Head(gen), "done", FALSE) THEN <<Head(gen)>>
    ELSE <<Head(gen)>> \o UpToDone(Tail(gen))

RECURSIVE ExpectedEvents(_, _)
\* The items a stream of request r owes its client for a generation without
\* fault: one chunk item per non-empty text, in order, then the terminal
\* item at the first done = true.
ExpectedEvents(r, gen) ==
    IF gen = <<>> THEN <<>>
    ELSE LET text == Get(Head(gen), "response", <<>>)
             item == IF text = <<>> THEN <<>> ELSE <<Event(r, text)>>
         IN  IF Get(Head(gen), "done", FALSE) THEN item \o <<Terminal(r)>>
             ELSE item \o ExpectedEvents(r, Tail(gen))

\* The handler of an HTTP request (not a bare send_to_tpu call) has answered.
Answered(t) == task[t].kind \in {"openai", "ollama"} /\ task[t].pc = "done"

\* The generation of task t is still running on the origin of its start
\* call: poll answers of it are left, the one with done = true among them.
InProgress(t) ==
    /\ task[t].origin \in Origins
    /\ backend[task[t].origin].owner = t
    /\ backend[task[t].origin].chunks # <<>>

\* A chat handler of FrontSpec has formatted the prompt of the request.
ChatFormatted ==
    /\ req.pc \in {"formatted", "answered"}
    /\ <<req.method, req.path>> \in Routes(req.variant) \cap ChatRoutes

\* The messages of the request at the front door (body.get("messages", [])).
ReqMessages == Get(req.body, "messages", <<>>)

\* The character with code point c is whitespace: the blanks and line ends
\* of ASCII with the separators U+001C to U+001F, NEL and the no-break
\* space, and the spaces and separators of Unicode.
Space(c) ==
    \/ c \in 9..13 \/ c \in 28..32
    \/ c \in {133, 160, 5760}
    \/ c \in 8192..8202
    \/ c \in {8232, 8233, 8239, 8287, 12288}

\* The text is empty or consists of whitespace.
WhitespaceOnly(s) == \A i \in 1..Len(s) : Space(s[i])

\* The roles of a ChatMessage.
ChatRoles == {"system", "user", "assistant"}

\* The labels the role-framing formatter puts before the contents.
RoleLabels ==
    [system |-> Str("Instructions: "), user |-> Str("User: "), assistant |-> Str("Assistant: ")]

\* The marker every prompt ends with.
Marker == Str("Assistant:")

\* The text holds no newline.
OneLine(s) == \A k \in 1..Len(s) : s[k] # 10

\* The message is a ChatMessage that survives the skip rule of the variant.
Survives(variant, msg) ==
    /\ msg.role \in ChatRoles
    /\ ~WhitespaceOnly(msg.content)
    /\ variant = "fixed_tpu_proxy" => ~Contains(msg.content, FaultSignature)

\* What a surviving message is rendered as.
Rendered(variant, msg) ==
    IF variant = "tpu_proxy_clean" THEN msg.content \o <<10, 10>>
    ELSE RoleLabels[msg.role] \o msg.content \o <<10>>

\* The list with the messages at i and j exchanged.
Swap(messages, i, j) ==
    [k \in 1..Len(messages) |->
        IF k = i THEN messages[j] ELSE IF k = j THEN messages[i] ELSE messages[k]]

RECURSIVE RenderedUpTo(_, _, _)
\* The surviving ones of the first n messages, rendered one after the other
\* in the order of the list.
RenderedUpTo(variant, messages, n) ==
    IF n = 0 THEN <<>>
    ELSE RenderedUpTo(variant, messages, n - 1)
             \o (IF Survives(variant, messages[n]) THEN Rendered(variant, messages[n])
                 ELSE <<>>)

\* The prompt that renders the list in order and ends with the marker.
InOrder(variant, messages) ==
    RenderedUpTo(variant, messages, Len(messages)) \o Marker

\* Exchanging two surviving messages of the list whose contents differ and
\* hold no newline changes the prompt the variant formats.
ExchangeShows(variant, messages, prompt) ==
    \A i, j \in 1..Len(messages) :
        ( /\ i < j
          /\ messages[i].content # messages[j].content
          /\ Survives(variant, messages[i])
          /\ Survives(variant, messages[j])
          /\ OneLine(messages[i].content)
          /\ OneLine(messages[j].content) ) =>
            FormattedPrompt(variant, Swap(messages, i, j)) # prompt

\* Two surviving messages of the list have contents that differ and hold
\* no newline.
TwoSurvive(variant, messages) ==
    \E i, j \in 1..Len(messages) :
        /\ i < j
        /\ Survives(variant, messages[i])
        /\ Survives(variant, messages[j])
        /\ messages[i].content # messages[j].content
        /\ OneLine(messages[i].content)
        /\ OneLine(messages[j].content)

RECURSIVE Joined(_, _)
\* The texts of the messages, each followed by sep, one after the other.
Joined(messages, sep) ==
    IF Len(messages) = 0 THEN <<>>
    ELSE Head(messages).content \o sep \o Joined(Tail(messages), sep)

\* s ends with suffix.
EndsWith(s, suffix) ==
    Len(s) >= Len(suffix) /\ SubSeq(s, Len(s) - Len(suffix) + 1, Len(s)) = suffix

\* The number of whitespace-separated words of a text: the positions where
\* a word begins.
Words(s) ==
    Cardinality({i \in 1..Len(s) : ~Space(s[i]) /\ (i > 1 => Space(s[i - 1]))})

\* The usage of a response object is the word counts of prompt and content.
UsageOf(object, prompt) ==
    /\ object.prompt_tokens = Words(prompt)
    /\ object.completion_tokens = Words(object.content)
    /\ object.total_tokens = object.prompt_tokens + object.completion_tokens

\* The state of the session of a request, once its start call was accepted.
SessionState(r) ==
    CASE r.kind \notin {"openai", "ollama"} \/ r.started = 0 -> "NONE"
      [] r.pc = "stream" -> "STARTED"
      [] r.pc \in {"poll", "sleep", "yield", "yield_done"} -> "POLLING"
      [] r.pc \in {"reset", "cooldown"} -> "RESETTING"
      [] r.pc = "restart" -> "RESTARTED"
      [] r.pc = "done" -> "DONE"

\* The moves of a session: the path of the state machine (a non-streaming
\* session issues its first poll in the step that starts it), and the ends it
\* takes from the states after STARTED (completion, budget used up, a failed
\* call).
SessionMoves ==
    { <<"NONE", "STARTED">>, <<"STARTED", "POLLING">>, <<"NONE", "POLLING">>,
      <<"POLLING", "RESETTING">>,
      <<"RESETTING", "RESTARTED">>, <<"RESTARTED", "POLLING">>,
      <<"POLLING", "DONE">>, <<"RESETTING", "DONE">>, <<"RESTARTED", "DONE">> }

(***************************************************************************)
(* C1.  A request whose start call was accepted polls the backend, and     *)
(* every poll, reset and restart call it issues goes to the endpoint that  *)
(* accepted its start call, also when that was the failover endpoint.      *)
(***************************************************************************)
PollsStartOrigin ==
    \A t \in Tasks :
        Served(t) =>
            /\ \E i \in 1..Len(task[t].calls) : task[t].calls[i].op = "poll"
            /\ \A i \in (AcceptedStart(t) + 1)..Len(task[t].calls) :
                   task[t].calls[i].target = task[t].origin

(***************************************************************************)
(* C2.  A non-streaming session with retry budget left whose generation    *)
(* delivers a fault chunk issues, after the polls up to that chunk,        *)
(* exactly one reset call and then one start call with the original        *)
(* prompt, both to the endpoint of its start call, before it polls again;  *)
(* the output accumulated before the fault is dropped.                     *)
(***************************************************************************)
FaultTriggersRecovery ==
    \A t \in Tasks :
        (Served(t) /\ ~task[t].stream /\ HasFault(Generation(script, 1))) =>
            LET r == task[t]
                at == AcceptedStart(t) + FirstFault(Generation(script, 1))
            IN  /\ Len(r.calls) >= at + 2
                /\ \A i \in (AcceptedStart(t) + 1)..at : r.calls[i].op = "poll"
                /\ r.calls[at + 1] = Call("reset", r.origin, <<>>)
                /\ r.calls[at + 2] = Call("generate", r.origin, r.prompt)
                /\ LET before == Text(SubSeq(Generation(script, 1), 1, at - AcceptedStart(t) - 1))
                   IN  before # <<>> => ~Contains(r.content, before)

(***************************************************************************)
(* C3.  No session issues more reset calls, or more restart calls, than    *)
(* the retry budget.  Every loop ends at its first poll (LLM_ORIGIN), so   *)
(* the counts are zero in every reachable state and no reachable state     *)
(* shows a fault being handled: the formula is recorded, not settled.      *)
(***************************************************************************)
ResetsWithinBudget ==
    \A t \in Tasks :
        /\ CountCalls(t, "reset", 1) <= max_retries
        /\ task[t].kind \in {"openai", "ollama"} =>
               CountCalls(t, "generate", AcceptedStart(t) + 1) <= max_retries

(***************************************************************************)
(* C4.  A non-streaming session whose restarted generation faults again    *)
(* (budget used up) ends without a further reset or start call and returns *)
(* an ordinary response (status 200) whose content holds the error marker. *)
(***************************************************************************)
BudgetExhaustedMarked ==
    \A t \in Tasks :
        ( /\ Served(t) /\ ~task[t].stream
          /\ Len(script) > max_retries
          /\ \A k \in 1..Len(script) : HasFault(script[k]) ) =>
            /\ task[t].status = 200
            /\ Contains(task[t].content, ErrorMarker)
            /\ CountCalls(t, "reset", 1) <= max_retries
            /\ CountCalls(t, "generate", AcceptedStart(t) + 1) <= max_retries

(***************************************************************************)
(* C5.  After a fault recovered by reset and restart the final             *)
(* non-streaming content is the concatenation of the chunks of the         *)
(* restarted generation only: no text from before the fault and no fault   *)
(* text is in it.                                                          *)
(***************************************************************************)
RecoveredContentClean ==
    \A t \in Tasks :
        ( /\ Served(t) /\ ~task[t].stream
          /\ Len(script) = 2
          /\ HasFault(script[1]) /\ ~HasFault(script[2]) ) =>
            /\ task[t].content = Text(script[2])
            /\ ~Contains(task[t].content, FaultSignature)

(***************************************************************************)
(* C6.  K consecutive get_next_origin calls return the endpoints with      *)
(* index (c + i) mod N, i = 0..K-1, c the cursor before the first of them  *)
(* (0 for the first call ever): the sequence has period N and any N        *)
(* consecutive selections choose every endpoint exactly once.              *)
(***************************************************************************)
RoundRobinCycle ==
    /\ selections # <<>> => selections[1].origin = LLM_ORIGINS[1]
    /\ \A i \in 1..Len(selections) : \A k \in 0..(Len(selections) - i) :
           OriginIndex(selections[i + k].origin)
               = (OriginIndex(selections[i].origin) + k) % NumOrigins
    /\ \A i \in 1..(Len(selections) - NumOrigins + 1) :
           {selections[j].origin : j \in i..(i + NumOrigins - 1)} = Origins

\* More than a full period of selections has been made.
RoundRobinWraps == Len(selections) > NumOrigins

(***************************************************************************)
(* C7.  Selection is atomic under every interleaving: after K selections   *)
(* the cursor is (0 + K) mod N, it always lies in 0..N-1, and the last     *)
(* call returned the endpoint at the cursor it found and advanced it by    *)
(* one, whether the backend calls in between succeeded or failed.          *)
(***************************************************************************)
CursorCountsSelections ==
    /\ current_origin_idx \in 0..(NumOrigins - 1)
    /\ current_origin_idx = Len(selections) % NumOrigins
    /\ selections # <<>> =>
           current_origin_idx
               = (OriginIndex(selections[Len(selections)].origin) + 1) % NumOrigins

\* Two tasks are in flight, selections of both are interleaved, and a backend
\* call has failed.
InterleavedSelections ==
    /\ Len(selections) >= 3
    /\ \E t \in Tasks : Interfered(t)
    /\ \E t \in Tasks : task[t].failed # <<>>

(***************************************************************************)
(* C8.  A send_to_tpu call: if the first M origins in rotation order (from *)
(* the origin of its first attempt) are unreachable and the other N-M      *)
(* reachable, M < N, it returns the response of a reachable origin; it     *)
(* raises only after all N origins were attempted and every one failed.    *)
(***************************************************************************)
SendFailsOver ==
    \A t \in Tasks :
        (task[t].kind = "send" /\ task[t].pc = "done") =>
            LET r == task[t]
                rot == RotationFrom(r.calls[1].target)
            IN  /\ \A M \in 0..(NumOrigins - 1) :
                       ( /\ \A k \in 1..M : rot[k] \notin up
                         /\ \A k \in (M + 1)..NumOrigins : rot[k] \in up )
                       => /\ r.error = ""
                          /\ r.status = 200
                          /\ r.origin \in up
                /\ r.error # "" =>
                       /\ {Targets(t)[i] : i \in 1..Len(r.calls)} = Origins
                       /\ up = {}

(***************************************************************************)
(* C9.  One send_to_tpu invocation makes at most N attempts and attempts   *)
(* each origin at most once, also when other tasks select in between.      *)
(***************************************************************************)
SendOncePerOrigin ==
    \A t \in Tasks :
        task[t].kind = "send" =>
            /\ Len(task[t].calls) <= NumOrigins
            /\ \A i, j \in 1..Len(task[t].calls) :
                   i # j => Targets(t)[i] # Targets(t)[j]

(***************************************************************************)
(* C10.  In the OpenAI-style handler the retry of a failed start call goes *)
(* to the next origin in rotation order, which is another origin than the  *)
(* one that failed, under any interleaving.                                *)
(***************************************************************************)
FailoverToNextOrigin ==
    \A t \in Tasks :
        (task[t].kind = "openai" /\ Len(task[t].calls) >= 2) =>
            /\ task[t].calls[2].target # task[t].calls[1].target
            /\ task[t].calls[2].target = RotationFrom(task[t].calls[1].target)[2]

(***************************************************************************)
(* C11.  A request whose start call fails on every configured endpoint is  *)
(* answered 5xx with an error body and issues nothing but start calls, at  *)
(* most one per endpoint; and a request answered 5xx without an accepted   *)
(* start call has tried every configured endpoint.                         *)
(***************************************************************************)
StartFailureAnswered ==
    \A t \in Tasks :
        Answered(t) =>
            LET r == task[t]
            IN  /\ up = {} =>
                       /\ r.status >= 500
                       /\ r.error # ""
                       /\ Len(r.calls) <= NumOrigins
                       /\ \A i \in 1..Len(r.calls) : r.calls[i].op = "generate"
                /\ (r.status >= 500 /\ r.started = 0) =>
                       {Targets(t)[i] : i \in 1..Len(r.calls)} = Origins

(***************************************************************************)
(* C12.  No item a stream forwards carries text with the fault signature.  *)
(* Every stream ends before its first poll (LLM_ORIGIN), so no item is     *)
(* forwarded in any reachable state and no reachable state shows a chunk   *)
(* being checked: the formula is recorded, not settled.                    *)
(***************************************************************************)
NoFaultForwarded ==
    \A t \in Tasks :
        \A i \in 1..Len(task[t].events) :
            /\ ~Contains(task[t].events[i].content, FaultSignature)
            /\ ~Contains(task[t].events[i].response, FaultSignature)

(***************************************************************************)
(* C13.  The stream of an OpenAI-style request whose generation has no     *)
(* fault consists of one chat.completion.chunk item per polled chunk with  *)
(* non-empty text, in arrival order with that text, and then exactly one   *)
(* [DONE] item ('a', 'b', '' with done: two chunk items, then [DONE]).     *)
(***************************************************************************)
StreamEventsInOrder ==
    \A t \in Tasks :
        ( /\ Served(t) /\ task[t].kind = "openai" /\ task[t].stream
          /\ WellFormed(Generation(script, 1))
          /\ ~HasFault(Generation(script, 1)) ) =>
            task[t].events = ExpectedEvents(task[t], Generation(script, 1))

(***************************************************************************)
(* C14.  A stream that has ended has emitted its terminal item ([DONE],    *)
(* respectively the object with done:true) as its last item and only once, *)
(* whatever made it end.                                                   *)
(***************************************************************************)
StreamEndsWithTerminal ==
    \A t \in Tasks :
        (Served(t) /\ task[t].stream) =>
            LET ev == task[t].events
            IN  /\ ev # <<>>
                /\ ev[Len(ev)] = Terminal(task[t])
                /\ \A i \in 1..(Len(ev) - 1) : ev[i] # Terminal(task[t])

(***************************************************************************)
(* C15.  A non-streaming request whose generation has no fault returns,    *)
(* with status 200, as content the concatenation in arrival order of the   *)
(* chunks up to and including the first with done = true ('hi', then ''    *)
(* with done: content 'hi').                                               *)
(***************************************************************************)
ContentIsConcatenation ==
    \A t \in Tasks :
        ( /\ Served(t) /\ ~task[t].stream
          /\ WellFormed(Generation(script, 1))
          /\ ~HasFault(Generation(script, 1)) ) =>
            /\ task[t].status = 200
            /\ task[t].content = Text(UpToDone(Generation(script, 1)))

(***************************************************************************)
(* C16.  A non-streaming handler that has returned a success response has  *)
(* seen the end of its generation: the generation it started is not still  *)
(* in progress on the backend.                                             *)
(***************************************************************************)
ReturnsAfterDone ==
    \A t \in Tasks :
        (Answered(t) /\ ~task[t].stream /\ task[t].status = 200) => ~InProgress(t)

(***************************************************************************)
(* C17.  A non-streaming request that has been answered either completed   *)
(* its generation (the content is the whole text of the generation, which  *)
(* has no fault), or shows the failure: status 5xx, or error text in the   *)
(* content.                                                                *)
(***************************************************************************)
FailureVisible ==
    \A t \in Tasks :
        (Answered(t) /\ ~task[t].stream) =>
            LET r == task[t]
                gen == Generation(script, IF r.started = 0 THEN 1 ELSE r.started)
            IN  \/ r.status >= 500
                \/ Contains(r.content, Str("Error"))
                \/ /\ r.started > 0
                   /\ ~HasFault(gen)
                   /\ r.content = Text(UpToDone(gen))

(***************************************************************************)
(* C18.  A non-streaming session some of whose poll answers are not JSON   *)
(* or lack the expected fields goes on polling past them up to the answer  *)
(* with done = true, and they leave its accumulator unchanged: the content *)
(* is the text of the other chunks.                                        *)
(***************************************************************************)
UnparsablePollSkipped ==
    \A t \in Tasks :
        ( /\ Served(t) /\ ~task[t].stream
          /\ \E i \in 1..Len(Generation(script, 1)) : Malformed(Generation(script, 1)[i])
          /\ ~HasFault(Generation(script, 1)) ) =>
            /\ CountCalls(t, "poll", 1) >= Len(UpToDone(Generation(script, 1)))
            /\ task[t].content = Text(UpToDone(Generation(script, 1)))

(***************************************************************************)
(* C19.  Every outbound call that failed to connect is followed by the     *)
(* same call to the next endpoint in rotation order, unless every endpoint *)
(* has been tried and has failed by then.                                  *)
(***************************************************************************)
FailedCallFailsOver ==
    \A t \in Tasks :
        task[t].pc = "done" =>
            LET r == task[t]
            IN  \A i \in 1..Len(r.calls) :
                    r.calls[i].target \notin up =>
                        \/ \A o \in Origins :
                               o \notin up /\ \E j \in 1..i : r.calls[j].target = o
                        \/ /\ i < Len(r.calls)
                           /\ r.calls[i + 1].op = r.calls[i].op
                           /\ r.calls[i + 1].target = RotationFrom(r.calls[i].target)[2]

(***************************************************************************)
(* C20.  While a request is in its poll loop the origin it started its     *)
(* generation on runs that generation: no start call of another request    *)
(* has replaced it.                                                        *)
(***************************************************************************)
OwnGeneration ==
    \A t \in Tasks :
        task[t].pc \in LoopPcs => backend[task[t].origin].owner = t

(***************************************************************************)
(* C21.  Every generation request, OpenAI-style or Ollama-style, has made  *)
(* an endpoint selection (which advanced the cursor) by the time its       *)
(* handler awaits or has answered, and its first call is the start call    *)
(* to the endpoint that selection returned.                                *)
(***************************************************************************)
AdaptersSelect ==
    \A t \in Tasks :
        task[t].kind \in {"openai", "ollama"} =>
            /\ \E i \in 1..Len(selections) : selections[i].task = t
            /\ task[t].calls # <<>>
            /\ LET first == CHOOSE i \in 1..Len(selections) :
                                /\ selections[i].task = t
                                /\ \A j \in 1..(i - 1) : selections[j].task # t
               IN  task[t].calls[1]
                       = Call("generate", selections[first].origin, task[t].prompt)

(***************************************************************************)
(* C22.  For a message list, the empty one included, all of whose contents *)
(* are empty or whitespace only, the prompt a chat handler formats is      *)
(* exactly 'Assistant:', in tpu_proxy_clean (both adapters) and in         *)
(* fixed_tpu_proxy.                                                        *)
(***************************************************************************)
BlankMessagesGiveMarker ==
    ( /\ ChatFormatted
      /\ \A i \in 1..Len(ReqMessages) : WhitespaceOnly(ReqMessages[i].content) ) =>
        req.prompt = Marker

\* A list of two blank messages has been formatted, one of them a
\* ChatMessage with whitespace outside ASCII.
BlankMessagesFormatted ==
    /\ ChatFormatted
    /\ Len(ReqMessages) >= 2
    /\ \A i \in 1..Len(ReqMessages) : WhitespaceOnly(ReqMessages[i].content)
    /\ \E i \in 1..Len(ReqMessages) :
           /\ ReqMessages[i].role \in ChatRoles
           /\ \E k \in 1..Len(ReqMessages[i].content) : ReqMessages[i].content[k] > 127

(***************************************************************************)
(* C23.  The prompt a chat handler formats never contains the content of a *)
(* message whose content contains the fault marker.                        *)
(***************************************************************************)
PromptNeverPoisoned ==
    ChatFormatted =>
        \A i \in 1..Len(ReqMessages) :
            Contains(ReqMessages[i].content, FaultSignature) =>
                ~Contains(req.prompt, ReqMessages[i].content)

(***************************************************************************)
(* C24.  In the simple formatting mode (tpu_proxy_clean, both adapters)    *)
(* the prompt is the contents of the surviving (non-blank) messages in     *)
(* their order, each followed by two newlines, then 'Assistant:'; every    *)
(* surviving message is in the prompt, and the prompt ends with            *)
(* 'Assistant:'.                                                           *)
(***************************************************************************)
SimplePromptLayout ==
    (ChatFormatted /\ req.variant = "tpu_proxy_clean") =>
        LET surviving == SelectSeq(ReqMessages, LAMBDA m : ~WhitespaceOnly(m.content))
        IN  /\ EndsWith(req.prompt, Marker)
            /\ req.prompt = Joined(surviving, <<10, 10>>) \o Marker
            /\ \A i \in 1..Len(surviving) :
                   Contains(req.prompt, surviving[i].content \o <<10, 10>>)

(***************************************************************************)
(* C25, as stated.  The prompt of a request, handled alone or with others  *)
(* in flight, is the rendering of its message list, and exchanging two     *)
(* messages of the list, so that the list changes, changes the prompt.     *)
(***************************************************************************)
PermutationChangesPrompt ==
    /\ \A t \in Tasks :
           task[t].kind \in {"openai", "ollama"} =>
               /\ task[t].prompt = InOrder("tpu_proxy_clean", task[t].messages)
               /\ \A i, j \in 1..Len(task[t].messages) :
                      Swap(task[t].messages, i, j) # task[t].messages =>
                          FormattedPrompt("tpu_proxy_clean", Swap(task[t].messages, i, j))
                              # task[t].prompt
    /\ ChatFormatted =>
           /\ req.prompt = InOrder(req.variant, ReqMessages)
           /\ \A i, j \in 1..Len(ReqMessages) :
                  Swap(ReqMessages, i, j) # ReqMessages =>
                      FormattedPrompt(req.variant, Swap(ReqMessages, i, j)) # req.prompt

(***************************************************************************)
(* C25, amended.  The prompt of a request, handled alone or with others in *)
(* flight, whatever was handled before, is the rendering of its message    *)
(* list alone: the surviving ChatMessages in the order of the list, then   *)
(* the marker.  Exchanging two surviving messages whose contents differ    *)
(* and hold no newline changes the prompt.                                 *)
(***************************************************************************)
FormatOrderPreserving ==
    /\ \A t \in Tasks :
           task[t].kind \in {"openai", "ollama"} =>
               /\ task[t].prompt = InOrder("tpu_proxy_clean", task[t].messages)
               /\ ExchangeShows("tpu_proxy_clean", task[t].messages, task[t].prompt)
    /\ ChatFormatted =>
           /\ req.prompt = InOrder(req.variant, ReqMessages)
           /\ ExchangeShows(req.variant, ReqMessages, req.prompt)

\* Two requests with the same list, two of whose messages are rendered, are
\* in flight together.
TwoRenderedMessages ==
    \E t, u \in Tasks :
        /\ t # u
        /\ task[t].kind \in {"openai", "ollama"} /\ task[u].kind \in {"openai", "ollama"}
        /\ task[t].pc # "done" /\ task[u].pc # "done"
        /\ task[t].messages = task[u].messages
        /\ TwoSurvive("tpu_proxy_clean", task[t].messages)

(***************************************************************************)
(* C26.  An Ollama-style request whose backend is reachable is answered    *)
(* with a response object that carries the response field and the          *)
(* message.content field with the same text, and so does every line of an  *)
(* Ollama-style stream.                                                    *)
(***************************************************************************)
OllamaMirrorsFields ==
    \A t \in Tasks :
        task[t].kind = "ollama" =>
            /\ \A i \in 1..Len(task[t].events) :
                   task[t].events[i].response = task[t].events[i].content
            /\ (Answered(t) /\ ~task[t].stream /\ up = Origins) =>
                   LET object == ResponseObject(task[t])
                   IN  /\ task[t].status = 200
                       /\ {"response", "content"} \subseteq DOMAIN object
                       /\ object["response"] = object["content"]

(***************************************************************************)
(* C27.  A request that carries a raw prompt instead of messages, sent to  *)
(* the Ollama-style front door (POST /api/generate, or /api/chat), is      *)
(* accepted: the raw prompt is part of the prompt formatted for the        *)
(* backend, and POST /api/generate is answered 200 with a response field.  *)
(***************************************************************************)
RawPromptAccepted ==
    ( /\ req.pc \in {"formatted", "answered"}
      /\ req.path \in {"/api/generate", "/api/chat"}
      /\ "prompt" \in DOMAIN req.body ) =>
        /\ Contains(req.prompt, req.body["prompt"])
        /\ (req.pc = "answered" /\ req.path = "/api/generate") =>
               req.status = 200 /\ "response" \in DOMAIN req.reply

(***************************************************************************)
(* C28.  GET /health reports 'healthy' exactly when the probe of the       *)
(* backend's /health is answered, 'degraded' exactly when it fails.        *)
(***************************************************************************)
HealthReflectsProbe ==
    (req.pc = "answered" /\ req.path = "/health") =>
        /\ req.reply["status"] \in {"healthy", "degraded"}
        /\ req.reply["status"] = "healthy" <=> req.outcome.kind = "answered"

(***************************************************************************)
(* C29.  In every OpenAI-style non-streaming response (of tpu_proxy_clean  *)
(* among concurrent requests, of both variants at the front door)          *)
(* usage.prompt_tokens is the number of whitespace-separated words of the  *)
(* prompt,                                                                 *)
(* usage.completion_tokens that of the returned content, and               *)
(* usage.total_tokens their sum.                                           *)
(***************************************************************************)
UsageIsWordCount ==
    /\ \A t \in Tasks :
           ( /\ Answered(t) /\ task[t].kind = "openai"
             /\ ~task[t].stream /\ task[t].status = 200 ) =>
               UsageOf(ResponseObject(task[t]), task[t].prompt)
    /\ (ChatFormatted /\ req.pc = "answered" /\ req.status = 200) =>
           UsageOf(req.reply, req.prompt)

\* A response whose prompt has several words, two of them apart by U+3000,
\* and whose content has words apart by two spaces outside ASCII.
UsageCounted ==
    /\ ChatFormatted /\ req.pc = "answered" /\ req.status = 200
    /\ req.reply.prompt_tokens >= 3
    /\ \E k \in 1..Len(req.prompt) : req.prompt[k] = 12288
    /\ req.reply.completion_tokens >= 2
    /\ \E k \in 1..(Len(req.reply.content) - 1) :
           /\ Space(req.reply.content[k]) /\ req.reply.content[k] > 127
           /\ Space(req.reply.content[k + 1])

(***************************************************************************)
(* C30.  A session moves only along STARTED -> POLLING -> (RESETTING ->    *)
(* RESTARTED -> POLLING) -> DONE: it reaches DONE only from a state after  *)
(* STARTED, a reset follows a poll and a restart a reset, and once it is   *)
(* DONE it makes no further backend call.                                  *)
(***************************************************************************)
SessionPath ==
    [][\A t \in Tasks :
          /\ \/ SessionState(task'[t]) = SessionState(task[t])
             \/ <<SessionState(task[t]), SessionState(task'[t])>> \in SessionMoves
          /\ SessionState(task[t]) = "DONE" => task'[t].calls = task[t].calls]_vars

(***************************************************************************)
(* C31.  Every session eventually reaches DONE, whatever the backend       *)
(* delivers (FairSpec: a handler that can take a step takes it).  Every    *)
(* loop ends before its first poll (LLM_ORIGIN), so the sessions end       *)
(* without a fault ever being handled: the formula is recorded, not        *)
(* settled.                                                                *)
(***************************************************************************)
SessionsEnd == \A t \in Tasks : (task[t].started > 0) ~> (task[t].pc = "done")

(***************************************************************************)
(* C32.  A step of a request whose start call was accepted leaves the      *)
(* rotation cursor and the selection history unchanged; a selection made   *)
(* by a request is made for a start call of a request without an accepted  *)
(* start, and it advances the cursor.  No request gets to issue a poll,    *)
(* reset or restart call (LLM_ORIGIN): the steps the formula speaks of are *)
(* those that end the loop, so the formula is recorded, not settled.       *)
(***************************************************************************)
CursorMovesOnlyAtStart ==
    [][ /\ \A t \in Tasks :
              ( /\ task[t].kind \in {"openai", "ollama"}
                /\ task[t].started > 0
                /\ task'[t] # task[t] ) =>
                  /\ current_origin_idx' = current_origin_idx
                  /\ selections' = selections
        /\ \A t \in Tasks :
              ( /\ task'[t].kind \in {"openai", "ollama"}
                /\ selections' # selections
                /\ selections'[Len(selections')].task = t ) =>
                  /\ task[t].started = 0
                  /\ current_origin_idx' # current_origin_idx
                  /\ task'[t].calls # <<>>
                  /\ task'[t].calls[Len(task'[t].calls)]
                         = Call("generate", selections'[Len(selections')].origin,
                                task'[t].prompt)
      ]_vars

(***************************************************************************)
(* C33.  A streaming session whose first generation faults and whose       *)
(* restarted generation completes has emitted the chunks before the fault, *)
(* no item for the fault chunk, and then the chunks of the restarted       *)
(* generation in order up to the terminal item.                            *)
(***************************************************************************)
StreamAppendOnly ==
    \A t \in Tasks :
        ( /\ Served(t) /\ task[t].stream
          /\ script # CrashScript
          /\ Len(script) = 2
          /\ HasFault(script[1]) /\ ~HasFault(script[2]) ) =>
            task[t].events
                = ExpectedEvents(task[t], SubSeq(script[1], 1, FirstFault(script[1]) - 1))
                      \o ExpectedEvents(task[t], script[2])

(***************************************************************************)
(* C34.  A non-streaming session whose reset call fails ends with the      *)
(* reset as its last backend call and returns a content that is an error   *)
(* message without the text accumulated before the fault.                  *)
(***************************************************************************)
RecoveryFailureReported ==
    \A t \in Tasks :
        (Served(t) /\ ~task[t].stream /\ script = CrashScript) =>
            LET r == task[t]
                before == Text(SubSeq(script[1], 1, FirstFault(script[1]) - 1))
            IN  /\ CountCalls(t, "reset", 1) = 1
                /\ r.calls[Len(r.calls)].op = "reset"
                /\ Contains(r.content, Str("Error"))
                /\ ~Contains(r.content, before)

(***************************************************************************)
(* C35.  A non-streaming session with retry budget left that polls a       *)
(* chunk with the fault signature and done = true handles it as a fault:   *)
(* it resets, restarts and polls again, and its content is the text of the *)
(* restarted generation.                                                   *)
(***************************************************************************)
FaultWithDoneRecovered ==
    \A t \in Tasks :
        ( /\ Served(t) /\ ~task[t].stream
          /\ Len(script) = 2
          /\ IsFault(script[1][1]) /\ Get(script[1][1], "done", FALSE)
          /\ ~HasFault(script[2]) ) =>
            LET r == task[t]
                at == AcceptedStart(t) + 1
            IN  /\ Len(r.calls) >= at + 3
                /\ r.calls[at].op = "poll"
                /\ r.calls[at + 1].op = "reset"
                /\ r.calls[at + 2] = Call("generate", r.origin, r.prompt)
                /\ r.calls[at + 3].op = "poll"
                /\ r.content = Text(script[2])

(***************************************************************************)
(* C36.  The content of a non-streaming response never contains the fault  *)
(* signature.  No loop ever polls (LLM_ORIGIN), so no content ever holds   *)
(* backend text and no reachable state shows a fault chunk being kept out: *)
(* the formula is recorded, not settled.                                   *)
(***************************************************************************)
ContentNeverHasSignature ==
    \A t \in Tasks :
        ( /\ Answered(t) /\ ~task[t].stream
          /\ \A k \in 1..Len(script) : ~Straddles(script[k]) ) =>
            ~Contains(task[t].content, FaultSignature)

(***************************************************************************)
(* C37.  A non-streaming session whose generation spells the fault         *)
(* signature, within one chunk or across two, detects the fault: it issues *)
(* a reset call and the signature is not in its content.                   *)
(***************************************************************************)
SplitFaultDetected ==
    \A t \in Tasks :
        ( /\ Served(t) /\ ~task[t].stream
          /\ script # CrashScript
          /\ Contains(Text(script[1]), FaultSignature) ) =>
            /\ CountCalls(t, "reset", 1) >= 1
            /\ CountCalls(t, "generate", AcceptedStart(t) + 1) >= 1
            /\ ~Contains(task[t].content, FaultSignature)

\* The backend answered the call with status 200 and a JSON object.
AnsweredObject(o) == o.kind = "answered" /\ o.code = 200 /\ o.data # NotJson

\* What a poll round yields: the text of the result (the response field, the
\* text field when there is no response field), else the text the provider
\* endpoint gives when the result call failed; and done = true of the
\* result.
YieldsText(poll) ==
    \/ /\ AnsweredObject(poll.main)
       /\ \/ "response" \in DOMAIN poll.main.data /\ poll.main.data.response # <<>>
          \/ /\ "response" \notin DOMAIN poll.main.data
             /\ "text" \in DOMAIN poll.main.data /\ poll.main.data.text # <<>>
    \/ /\ ~AnsweredObject(poll.main) /\ ~(poll.main.kind = "answered" /\ poll.main.code # 200)
       /\ AnsweredObject(poll.alt)
       /\ "response" \in DOMAIN poll.alt.data /\ poll.alt.data.response # <<>>

YieldsDone(poll) ==
    /\ AnsweredObject(poll.main)
    /\ "done" \in DOMAIN poll.main.data /\ poll.main.data.done

(***************************************************************************)
(* C38.  universal_tpu_proxy polls only for a start response with status   *)
(* 'ok' and no text, makes at most max_polls rounds, has stopped at the    *)
(* first round that yielded a text or done = true, and answers after the   *)
(* round that stops or the last round.                                     *)
(***************************************************************************)
PollingBounded ==
    /\ req.polls <= max_polls
    /\ req.polls > 0 => req.variant = "universal_tpu_proxy"
    /\ req.pc \in {"polling", "result", "provider"} =>
           /\ req.polls < max_polls
           /\ AnsweredObject(req.outcome)
           /\ "response" \in DOMAIN req.outcome.data => req.outcome.data.response = <<>>
           /\ "status" \in DOMAIN req.outcome.data /\ req.outcome.data.status = "ok"
           /\ req.polls > 0 => ~YieldsText(req.poll) /\ ~YieldsDone(req.poll)
    /\ (req.pc = "answered" /\ req.polls > 0) =>
           /\ req.status = 200 /\ "content" \in DOMAIN req.reply
           /\ req.polls < max_polls => YieldsText(req.poll) \/ YieldsDone(req.poll)
           /\ YieldsText(req.poll) => req.reply.content # <<>>

\* The backend never had a result: the handler has answered after the last
\* of the max_polls rounds.
PollsExhausted ==
    /\ req.pc = "answered"
    /\ req.polls = max_polls
    /\ ~YieldsText(req.poll) /\ ~YieldsDone(req.poll)

(***************************************************************************)
(* C39.  The chat-completions handlers of fixed_tpu_proxy and              *)
(* universal_tpu_proxy answer every outcome of the start call: 504 with an *)
(* error body for a timeout, 500 with an error body for a status other     *)
(* than 200 and for any other failure (a refused connection, a body that   *)
(* is not JSON), and a chat.completion object only after the start call    *)
(* was answered with status 200.                                           *)
(***************************************************************************)
FailuresMapped ==
    (req.pc = "answered" /\ req.variant \in BackVariants /\ req.path = "/v1/chat/completions") =>
        LET o == req.outcome
            error == "error" \in DOMAIN req.reply /\ req.reply.error # ""
        IN  /\ req.status \in {200, 500, 504}
            /\ o.kind = "timeout" => req.status = 504 /\ error
            /\ (o.kind = "answered" /\ o.code # 200) => req.status = 500 /\ error
            /\ (o.kind = "refused" \/ (o.kind = "answered" /\ o.code = 200 /\ o.data = NotJson))
                   => req.status = 500 /\ error
            /\ req.status = 200 <=> "content" \in DOMAIN req.reply
            /\ "content" \in DOMAIN req.reply => AnsweredObject(o)

\* universal_tpu_proxy has answered a start call that timed out.
TimeoutAnswered ==
    /\ req.pc = "answered"
    /\ req.variant = "universal_tpu_proxy"
    /\ req.outcome.kind = "timeout"
    /\ req.status = 504

(***************************************************************************)
(* C40.  The content a handler returns, the result of clean_response,      *)
(* contains neither think tag, and cleaning it again leaves it unchanged.  *)
(***************************************************************************)
CleanResponseRemovesTags ==
    (req.pc = "answered" /\ req.variant \in BackVariants /\ "content" \in DOMAIN req.reply) =>
        /\ ~Contains(req.reply.content, THINK_START)
        /\ ~Contains(req.reply.content, THINK_END)
        /\ clean_response(req.reply.content) = req.reply.content

=============================================================================
